---- MODULE Spec2Model ----
(***************************************************************************)
(* Model of ballista/core/src/serde/mod.rs: the composed logical          *)
(* extension codec (file-format blobs prefixed by the position of the     *)
(* sub-codec that encoded them) and the physical extension codec for the  *)
(* three shuffle plan nodes.                                              *)
(***************************************************************************)
EXTENDS Integers, Sequences, FiniteSets, TLC

VARIABLES self, file_format_codecs, buf, pre, op, arg, res, calls

vars == <<self, file_format_codecs, buf, pre, op, arg, res, calls>>

(***************************************************************************)
(* Bounds of the model.                                                   *)
(***************************************************************************)
MaxCodecs == 2      \* sub-codecs of a short list
MaxFormat == 1      \* file formats are 0..MaxFormat
MaxChildren == 2    \* children handed to the physical decoder
MaxExprs == 2       \* hash expressions of a partitioning
MaxLocs == 2        \* locations of one output partition

(***************************************************************************)
(* Program constants.                                                     *)
(***************************************************************************)
U8Range == 256

Ok(v) == [tag |-> "Ok", val |-> v]
Err(e) == [tag |-> "Err", err |-> e]
Panic(m) == [tag |-> "Panic", msg |-> m]

NotImplemented(m) == [kind |-> "NotImplemented", msg |-> m]
Internal(m) == [kind |-> "Internal", msg |-> m]

(***************************************************************************)
(* Sub-codecs: implementations of LogicalExtensionCodec held in the list. *)
(* A sub-codec accepts a set of file formats, lays an accepted format out *)
(* in its own way (key), and may have written bytes (junk) into the       *)
(* buffer it was handed by the time it reports that it rejects a format.  *)
(* Two families: one that rejects before it writes, and one that writes a *)
(* header first.                                                          *)
(***************************************************************************)
Formats == 0..MaxFormat

SubCodecs ==
    {[key |-> k, accepts |-> a, junk |-> IF k = 0 THEN <<>> ELSE <<99>>] :
        k \in {0, 1}, a \in SUBSET Formats}

Filler == [key |-> 0, accepts |-> {}, junk |-> <<>>]

SubCodecError(c) ==
    [kind |-> "Execution", msg |-> "Unsupported FileFormatFactory type",
     key |-> c.key, accepts |-> c.accepts]

\* what sub-codec c writes for a format it accepts
Payload(c, node) == <<c.key + node>>

\* codec.try_encode_file_format(&mut encoded_format, node)
SubEncode(c, enc, node) ==
    IF node \in c.accepts
    THEN [ok |-> TRUE, enc |-> enc \o Payload(c, node)]
    ELSE [ok |-> FALSE, enc |-> enc \o c.junk, err |-> SubCodecError(c)]

\* codec.try_decode_file_format(bytes, ctx)
SubDecode(c, bytes) ==
    IF \E f \in c.accepts : bytes = Payload(c, f)
    THEN Ok(CHOOSE f \in c.accepts : bytes = Payload(c, f))
    ELSE Err(SubCodecError(c))

(***************************************************************************)
(* BallistaLogicalExtensionCodec::try_any, applied to the closure of      *)
(* try_encode_file_format: the closure appends to the one encoded_format  *)
(* vector it captured, whatever sub-codec it is called with.              *)
(* The list is 1-based here; position is the 0-based index of the code.   *)
(* The loop is unrolled: Stop is the iteration that returns (0 if none    *)
(* does), EncodedAfter(n) is encoded_format after the first n iterations. *)
(***************************************************************************)
Stop(codecs, node) ==
    LET oks == {i \in DOMAIN codecs : SubEncode(codecs[i], <<>>, node).ok}
    IN IF oks = {} THEN 0 ELSE CHOOSE i \in oks : \A j \in oks : i <= j

RECURSIVE EncodedBetween(_, _, _, _)
EncodedBetween(codecs, node, lo, hi) ==
    IF lo > hi THEN <<>>
    ELSE IF lo = hi THEN SubEncode(codecs[lo], <<>>, node).enc
    ELSE LET mid == (lo + hi) \div 2
         IN EncodedBetween(codecs, node, lo, mid)
                \o EncodedBetween(codecs, node, mid + 1, hi)

EncodedAfter(codecs, node, n) == EncodedBetween(codecs, node, 1, n)

\* position as u8
PositionAsU8(position) == position % U8Range

\* try_any keeping the first error instead of the last
try_any_first_err(codecs, node) ==
    LET stop == Stop(codecs, node)
        last == IF stop = 0 THEN Len(codecs) ELSE stop
        trace == [i \in 1..last |->
                    [pos |-> i - 1, fn |-> "encode",
                     ok |-> SubEncode(codecs[i], <<>>, node).ok]]
        enc == EncodedAfter(codecs, node, last)
    IN IF stop # 0
       THEN [ok |-> TRUE, position |-> PositionAsU8(stop - 1),
             enc |-> enc, trace |-> trace]
       ELSE [ok |-> FALSE,
             err |-> IF codecs = <<>>
                     THEN NotImplemented("Empty list of composed codecs")
                     ELSE SubEncode(codecs[1], <<>>, node).err,
             enc |-> enc, trace |-> trace]

try_any(codecs, node) ==
    LET stop == Stop(codecs, node)
        last == IF stop = 0 THEN Len(codecs) ELSE stop
        trace == [i \in 1..last |->
                    [pos |-> i - 1, fn |-> "encode",
                     ok |-> SubEncode(codecs[i], <<>>, node).ok]]
        enc == EncodedAfter(codecs, node, last)
    IN IF stop # 0
       THEN [ok |-> TRUE, position |-> PositionAsU8(stop - 1),
             enc |-> enc, trace |-> trace]
       ELSE [ok |-> FALSE,
             err |-> IF codecs = <<>>
                     THEN NotImplemented("Empty list of composed codecs")
                     ELSE SubEncode(codecs[last], <<>>, node).err,
             enc |-> enc, trace |-> trace]

(***************************************************************************)
(* BallistaLogicalExtensionCodec::try_encode_file_format                   *)
(***************************************************************************)
\* try_encode_file_format with the closure writing into buf itself
try_encode_file_format_into_buf(codecs, b, node) ==
    LET r == try_any(codecs, node)
    IN IF r.ok
       THEN [res |-> Ok(<<>>), buf |-> (b \o r.enc) \o <<r.position>>,
             trace |-> r.trace]
       ELSE [res |-> Err(r.err), buf |-> b \o r.enc, trace |-> r.trace]

try_encode_file_format(codecs, b, node) ==
    LET r == try_any(codecs, node)
    IN IF r.ok
       THEN [res |-> Ok(<<>>), buf |-> (b \o <<r.position>>) \o r.enc,
             trace |-> r.trace]
       ELSE [res |-> Err(r.err), buf |-> b, trace |-> r.trace]

(***************************************************************************)
(* BallistaLogicalExtensionCodec::try_decode_file_format                   *)
(***************************************************************************)
\* try_decode_file_format taking the leading byte as a 1-based index
try_decode_file_format_off_by_one(codecs, bytes) ==
    IF bytes # <<>>
    THEN LET codec_number == bytes[1]
         IN IF codec_number \in DOMAIN codecs
            THEN [res |-> SubDecode(codecs[codec_number], Tail(bytes)),
                  trace |-> <<[pos |-> codec_number - 1, fn |-> "decode",
                               bytes |-> Tail(bytes)]>>]
            ELSE [res |-> Err(NotImplemented("Can't find required codex")),
                  trace |-> <<>>]
    ELSE [res |-> Err(NotImplemented(
                      "File format blob should have more than 0 bytes")),
          trace |-> <<>>]

try_decode_file_format(codecs, bytes) ==
    IF bytes # <<>>
    THEN LET codec_number == bytes[1]
         IN IF codec_number + 1 \in DOMAIN codecs
            THEN [res |-> SubDecode(codecs[codec_number + 1], Tail(bytes)),
                  trace |-> <<[pos |-> codec_number, fn |-> "decode",
                               bytes |-> Tail(bytes)]>>]
            ELSE [res |-> Err(NotImplemented("Can't find required codex")),
                  trace |-> <<>>]
    ELSE [res |-> Err(NotImplemented(
                      "File format blob should have more than 0 bytes")),
          trace |-> <<>>]

(***************************************************************************)
(* Machine words.  A usize (64 bits) is four 16-bit limbs, least          *)
(* significant first; a u32 is two.                                       *)
(***************************************************************************)
LimbMax == U8Range * U8Range - 1

Usize(l0, l1, l2, l3) == <<l0, l1, l2, l3>>

\* x as u32, for x: usize
AsU32(x) == <<x[1], x[2]>>

\* x as usize, for x: u32
U32AsUsize(x) == <<x[1], x[2], 0, 0>>

\* x as u64, for x: usize, and back through try_into().unwrap()
AsU64(x) == x
U64AsUsize(x) == x

None == <<>>
Some(x) == <<x>>

SeqOk(rs) == \A i \in DOMAIN rs : rs[i].tag = "Ok"
SeqVals(rs) == [i \in DOMAIN rs |-> rs[i].val]
FirstErr(rs) ==
    rs[CHOOSE i \in DOMAIN rs : rs[i].tag = "Err"
                                 /\ \A j \in 1..(i - 1) : rs[j].tag = "Ok"]

(***************************************************************************)
(* Collaborators of the physical codec: expression, schema and partition  *)
(* location conversions, and the protobuf envelope.                       *)
(***************************************************************************)
Exprs == {"a", "b", "opaque"}
Schemas == {"s1", "s2", "unsupported"}
Locations == {"L1", "L2", "unconvertible"}

\* serialize_physical_expr(expr, codec)
serialize_physical_expr(e) ==
    IF e = "opaque"
    THEN Err([kind |-> "NotImplemented", msg |-> "physical expr"])
    ELSE Ok([expr_type |-> e])

\* parse_physical_exprs(exprs, registry, schema, codec)
parse_physical_expr(p, schema) == Ok(p.expr_type)

\* Schema -> protobuf::Schema (try_into)
SchemaToProto(s) ==
    IF s = "unsupported"
    THEN Err([kind |-> "NotImplemented", msg |-> "schema"])
    ELSE Ok([columns |-> s])

\* convert_required!(schema)
convert_required(field) ==
    IF field = None
    THEN Err([kind |-> "General", msg |-> "Missing required field in protobuf"])
    ELSE Ok(field[1].columns)

\* PartitionLocation -> protobuf::PartitionLocation (try_into)
LocationToProto(l) ==
    IF l = "unconvertible"
    THEN Err(Internal("Fail to get partition location"))
    ELSE Ok([location |-> l])

\* protobuf::PartitionLocation -> PartitionLocation (try_into)
LocationFromProto(p) ==
    IF "location" \in DOMAIN p
    THEN Ok(p.location)
    ELSE Err(Internal("Fail to get partition location"))

\* prost: a scalar field holding its default value is not written, a message
\* field is written whenever it is present, and a missing field reads as the
\* default.  The wire is a sequence of [f |-> field, v |-> value] entries.
Field(name, value, default) ==
    IF value = default THEN <<>> ELSE <<[f |-> name, v |-> value]>>

OptField(name, opt) ==
    IF opt = None THEN <<>> ELSE <<[f |-> name, v |-> opt[1]]>>

HasField(fields, name) == \E i \in DOMAIN fields : fields[i].f = name

GetField(fields, name, default) ==
    IF HasField(fields, name)
    THEN fields[CHOOSE i \in DOMAIN fields :
                    fields[i].f = name
                    /\ \A j \in DOMAIN fields : fields[j].f = name => j <= i].v
    ELSE default

GetOpt(fields, name) ==
    IF HasField(fields, name) THEN Some(GetField(fields, name, None)) ELSE None

ZeroU32 == <<0, 0>>
ZeroU64 == <<0, 0, 0, 0>>

PlanTypes == {"ShuffleWriter", "ShuffleReader", "UnresolvedShuffle"}

HashRepartitionFields(h) ==
    Field("hash_expr", h.hash_expr, <<>>)
        \o Field("partition_count", h.partition_count, ZeroU64)

NodeFields(kind, n) ==
    IF kind = "ShuffleWriter"
    THEN Field("job_id", n.job_id, "")
            \o Field("stage_id", n.stage_id, ZeroU32)
            \o OptField("input", n.input)
            \o (IF n.output_partitioning = None THEN <<>>
                ELSE <<[f |-> "output_partitioning",
                        v |-> HashRepartitionFields(n.output_partitioning[1])]>>)
    ELSE IF kind = "ShuffleReader"
    THEN Field("partition", n.partition, <<>>)
            \o OptField("schema", n.schema)
            \o Field("stage_id", n.stage_id, ZeroU32)
    ELSE Field("stage_id", n.stage_id, ZeroU32)
            \o OptField("schema", n.schema)
            \o Field("output_partition_count", n.output_partition_count, ZeroU32)

\* BallistaPhysicalPlanNode::encode(buf): the bytes appended to buf
ProtoEncode(proto) ==
    IF proto.physical_plan_type = None THEN <<>>
    ELSE LET t == proto.physical_plan_type[1]
         IN <<[f |-> t.kind, v |-> NodeFields(t.kind, t.node)]>>

NodeFromFields(kind, fs) ==
    IF kind = "ShuffleWriter"
    THEN [job_id |-> GetField(fs, "job_id", ""),
          stage_id |-> GetField(fs, "stage_id", ZeroU32),
          input |-> GetOpt(fs, "input"),
          output_partitioning |->
              IF HasField(fs, "output_partitioning")
              THEN LET h == GetField(fs, "output_partitioning", <<>>)
                   IN Some([hash_expr |-> GetField(h, "hash_expr", <<>>),
                            partition_count |->
                                GetField(h, "partition_count", ZeroU64)])
              ELSE None]
    ELSE IF kind = "ShuffleReader"
    THEN [partition |-> GetField(fs, "partition", <<>>),
          schema |-> GetOpt(fs, "schema"),
          stage_id |-> GetField(fs, "stage_id", ZeroU32)]
    ELSE [stage_id |-> GetField(fs, "stage_id", ZeroU32),
          schema |-> GetOpt(fs, "schema"),
          output_partition_count |->
              GetField(fs, "output_partition_count", ZeroU32)]

WellFormed(bytes) ==
    \A i \in DOMAIN bytes :
        /\ DOMAIN bytes[i] = {"f", "v"}
        /\ bytes[i].f \in PlanTypes

\* BallistaPhysicalPlanNode::decode(buf)
ProtoDecode(bytes) ==
    IF ~WellFormed(bytes)
    THEN Err([kind |-> "DecodeError", msg |-> "invalid wire type"])
    ELSE IF bytes = <<>> THEN Ok([physical_plan_type |-> None])
    ELSE LET last == bytes[Len(bytes)]
         IN Ok([physical_plan_type |->
                   Some([kind |-> last.f,
                         node |-> NodeFromFields(last.f, last.v)])])

(***************************************************************************)
(* Execution plans.                                                       *)
(***************************************************************************)
Hash(exprs, n) == [kind |-> "Hash", exprs |-> exprs, partition_count |-> n]
RoundRobinBatch(n) == [kind |-> "RoundRobinBatch", partition_count |-> n]

\* ShuffleWriterExec::try_new(job_id, stage_id, plan, work_dir, partitioning)
ShuffleWriterExec(job_id, stage_id, plan, work_dir, partitioning) ==
    [type |-> "ShuffleWriterExec", job_id |-> job_id, stage_id |-> stage_id,
     plan |-> plan, work_dir |-> work_dir,
     shuffle_output_partitioning |-> partitioning]

\* ShuffleReaderExec::try_new(stage_id, partition, schema)
ShuffleReaderExec(stage_id, partition, schema) ==
    [type |-> "ShuffleReaderExec", stage_id |-> stage_id,
     partition |-> partition, schema |-> schema]

\* UnresolvedShuffleExec::new(stage_id, schema, output_partition_count)
UnresolvedShuffleExec(stage_id, schema, output_partition_count) ==
    [type |-> "UnresolvedShuffleExec", stage_id |-> stage_id,
     schema |-> schema, output_partition_count |-> output_partition_count]

\* any plan that is none of the three
EmptyExec(schema) == [type |-> "EmptyExec", schema |-> schema]

\* parse_protobuf_hash_partitioning(partitioning, registry, schema, codec)
parse_protobuf_hash_partitioning(partitioning, schema) ==
    IF partitioning = None THEN Ok(None)
    ELSE LET hash_part == partitioning[1]
             rs == [i \in DOMAIN hash_part.hash_expr |->
                       parse_physical_expr(hash_part.hash_expr[i], schema)]
         IN IF SeqOk(rs)
            THEN Ok(Some(Hash(SeqVals(rs),
                              U64AsUsize(hash_part.partition_count))))
            ELSE FirstErr(rs)

(***************************************************************************)
(* BallistaPhysicalExtensionCodec::try_decode                              *)
(***************************************************************************)
DecodePartition(p) ==
    LET rs == [i \in DOMAIN p.location |-> LocationFromProto(p.location[i])]
    IN IF SeqOk(rs) THEN Ok(SeqVals(rs)) ELSE FirstErr(rs)

try_decode(bytes, inputs) ==
    LET decoded == ProtoDecode(bytes)
    IN IF decoded.tag = "Err"
       THEN Err(Internal("Could not deserialize BallistaPhysicalPlanNode"))
       ELSE IF decoded.val.physical_plan_type = None
       THEN Err(Internal("Could not deserialize BallistaPhysicalPlanNode because it's physical_plan_type is none"))
       ELSE LET ballista_plan == decoded.val.physical_plan_type[1]
                n == ballista_plan.node
            IN IF ballista_plan.kind = "ShuffleWriter"
               THEN IF inputs = <<>>
                    THEN Panic("index out of bounds: the len is 0 but the index is 0")
                    ELSE LET input == inputs[1]
                             part == parse_protobuf_hash_partitioning(
                                         n.output_partitioning, input.schema)
                         IN IF part.tag = "Err" THEN part
                            ELSE Ok(ShuffleWriterExec(n.job_id,
                                        U32AsUsize(n.stage_id), input, "",
                                        part.val))
               ELSE IF ballista_plan.kind = "ShuffleReader"
               THEN LET stage_id == U32AsUsize(n.stage_id)
                        schema == convert_required(n.schema)
                        rs == [i \in DOMAIN n.partition |->
                                  DecodePartition(n.partition[i])]
                    IN IF schema.tag = "Err" THEN schema
                       ELSE IF ~SeqOk(rs) THEN FirstErr(rs)
                       ELSE Ok(ShuffleReaderExec(stage_id, SeqVals(rs),
                                                 schema.val))
               ELSE LET schema == convert_required(n.schema)
                    IN IF schema.tag = "Err" THEN schema
                       ELSE Ok(UnresolvedShuffleExec(
                                   U32AsUsize(n.stage_id), schema.val,
                                   U32AsUsize(n.output_partition_count)))

(***************************************************************************)
(* BallistaPhysicalExtensionCodec::try_encode                              *)
(***************************************************************************)
\* the match with None sent as a hash partitioning without expressions
EncodeOutputPartitioning_none_as_hash(exec) ==
    LET p == exec.shuffle_output_partitioning
    IN IF p = None
       THEN Ok(Some([hash_expr |-> <<>>, partition_count |-> ZeroU64]))
       ELSE IF p[1].kind = "Hash"
       THEN LET rs == [i \in DOMAIN p[1].exprs |->
                          serialize_physical_expr(p[1].exprs[i])]
            IN IF SeqOk(rs)
               THEN Ok(Some([hash_expr |-> SeqVals(rs),
                             partition_count |-> AsU64(p[1].partition_count)]))
               ELSE FirstErr(rs)
       ELSE Err(Internal("physical_plan::to_proto() invalid partitioning for ShuffleWriterExec"))

\* the match on exec.shuffle_output_partitioning()
EncodeOutputPartitioning(exec) ==
    LET p == exec.shuffle_output_partitioning
    IN IF p = None THEN Ok(None)
       ELSE IF p[1].kind = "Hash"
       THEN LET rs == [i \in DOMAIN p[1].exprs |->
                          serialize_physical_expr(p[1].exprs[i])]
            IN IF SeqOk(rs)
               THEN Ok(Some([hash_expr |-> SeqVals(rs),
                             partition_count |-> AsU64(p[1].partition_count)]))
               ELSE FirstErr(rs)
       ELSE Err(Internal("physical_plan::to_proto() invalid partitioning for ShuffleWriterExec"))

EncodePartition(location) ==
    LET rs == [i \in DOMAIN location |-> LocationToProto(location[i])]
    IN IF SeqOk(rs) THEN Ok([location |-> SeqVals(rs)]) ELSE FirstErr(rs)

\* exec.stage_id as u32, exec.output_partition_count as u32
WireStageId(x) == AsU32(x)

ShuffleWriterProto(exec, output_partitioning) ==
    [physical_plan_type |-> Some([kind |-> "ShuffleWriter", node |->
        [job_id |-> exec.job_id, stage_id |-> WireStageId(exec.stage_id),
         input |-> None, output_partitioning |-> output_partitioning]])]

ShuffleReaderProto(exec, partition, schema) ==
    [physical_plan_type |-> Some([kind |-> "ShuffleReader", node |->
        [stage_id |-> WireStageId(exec.stage_id), partition |-> partition,
         schema |-> Some(schema)]])]

UnresolvedShuffleProto(exec, schema) ==
    [physical_plan_type |-> Some([kind |-> "UnresolvedShuffle", node |->
        [stage_id |-> WireStageId(exec.stage_id), schema |-> Some(schema),
         output_partition_count |-> AsU32(exec.output_partition_count)]])]

try_encode(node, b) ==
    IF node.type = "ShuffleWriterExec"
    THEN LET output_partitioning == EncodeOutputPartitioning(node)
         IN IF output_partitioning.tag = "Err"
            THEN [res |-> output_partitioning, buf |-> b]
            ELSE [res |-> Ok(<<>>),
                  buf |-> b \o ProtoEncode(
                              ShuffleWriterProto(node, output_partitioning.val))]
    ELSE IF node.type = "ShuffleReaderExec"
    THEN LET rs == [i \in DOMAIN node.partition |->
                       EncodePartition(node.partition[i])]
             schema == SchemaToProto(node.schema)
         IN IF ~SeqOk(rs) THEN [res |-> FirstErr(rs), buf |-> b]
            ELSE IF schema.tag = "Err" THEN [res |-> schema, buf |-> b]
            ELSE [res |-> Ok(<<>>),
                  buf |-> b \o ProtoEncode(
                              ShuffleReaderProto(node, SeqVals(rs), schema.val))]
    ELSE IF node.type = "UnresolvedShuffleExec"
    THEN LET schema == SchemaToProto(node.schema)
         IN IF schema.tag = "Err" THEN [res |-> schema, buf |-> b]
            ELSE [res |-> Ok(<<>>),
                  buf |-> b \o ProtoEncode(
                              UnresolvedShuffleProto(node, schema.val))]
    ELSE [res |-> Err(Internal("unsupported plan type")), buf |-> b]

(***************************************************************************)
(* State machine: a behaviour is one call on one of the two codecs, or an  *)
(* encode followed by the decode of what it appended.                     *)
(***************************************************************************)
RECURSIVE SeqsUpTo(_, _)
SeqsUpTo(S, n) ==
    IF n = 0 THEN {<<>>}
    ELSE LET shorter == SeqsUpTo(S, n - 1)
         IN shorter \cup {Append(s, x) : s \in {t \in shorter : Len(t) = n - 1}, x \in S}

Pad(n) == [i \in 1..n |-> Filler]

\* lists of sub-codecs: every short list, and long lists that put one or two
\* sub-codecs behind U8Range - 1 sub-codecs that reject everything, so that
\* positions U8Range - 1 and U8Range are both taken
TailCodecs == {c \in SubCodecs : c.key = 0}

CodecLists ==
    SeqsUpTo(SubCodecs, MaxCodecs)
    \cup {Pad(U8Range - 1) \o s : s \in SeqsUpTo(TailCodecs, 2)}

\* blobs handed to the decoder: nothing, or a leading byte and a payload
LeadingBytes == {0, 1, 2, 3, U8Range - 1}
RawBlobs ==
    {<<>>}
    \cup {<<p>> \o rest : p \in LeadingBytes,
                           rest \in {<<>>, <<0>>, <<1>>, <<99, 0>>}}
Prefixes == {<<>>, <<7>>}

StageIds ==
    {Usize(0, 0, 0, 0), Usize(3, 0, 0, 0), Usize(LimbMax, LimbMax, 0, 0),
     Usize(3, 0, 1, 0)}
Counts == {Usize(0, 0, 0, 0), Usize(4, 0, 0, 0), Usize(4, 0, 1, 0)}

Children == {EmptyExec("s1"), EmptyExec("s2")}
ChildLists == SeqsUpTo(Children, MaxChildren)

Partitionings ==
    {None}
    \cup {Some(Hash(es, n)) : es \in SeqsUpTo(Exprs, MaxExprs), n \in Counts}
    \cup {Some(RoundRobinBatch(Usize(4, 0, 0, 0)))}

\* up to two output partitions, each with up to MaxLocs locations
Partitions == SeqsUpTo(SeqsUpTo(Locations, MaxLocs), 2)

Plans ==
    {ShuffleWriterExec(j, s, c, "/work", p) :
        j \in {"", "job"}, s \in StageIds, c \in Children, p \in Partitionings}
    \cup {ShuffleReaderExec(s, p, sch) :
            s \in StageIds, p \in Partitions, sch \in Schemas}
    \cup {UnresolvedShuffleExec(s, sch, n) :
            s \in StageIds, sch \in Schemas, n \in Counts}
    \cup Children

\* envelopes no encoder of this codec produces
RawEnvelopes ==
    {<<>>,
     <<[garbage |-> 1]>>,
     <<[f |-> "ShuffleWriter", v |-> <<>>]>>,
     <<[f |-> "ShuffleReader", v |-> <<>>]>>,
     <<[f |-> "ShuffleReader",
        v |-> <<[f |-> "partition", v |-> <<[location |-> <<[host |-> "h"]>>]>>],
                [f |-> "schema", v |-> [columns |-> "s1"]]>>]>>,
     <<[f |-> "UnresolvedShuffle", v |-> <<>>]>>,
     <<[f |-> "UnresolvedShuffle",
        v |-> <<[f |-> "schema", v |-> [columns |-> "s1"]]>>]>>}

NoArg == [none |-> TRUE]

Init ==
    /\ \/ self = "BallistaLogicalExtensionCodec"
          /\ file_format_codecs \in CodecLists
       \/ self = "BallistaPhysicalExtensionCodec"
          /\ file_format_codecs = <<>>
    /\ buf \in Prefixes
    /\ pre = buf
    /\ op = "none"
    /\ arg = NoArg
    /\ res = Ok(<<>>)
    /\ calls = <<>>

EncodeFileFormat ==
    /\ self = "BallistaLogicalExtensionCodec"
    /\ op = "none"
    /\ \E node \in Formats :
          LET r == try_encode_file_format(file_format_codecs, buf, node)
          IN /\ buf' = r.buf
             /\ res' = r.res
             /\ calls' = r.trace
             /\ arg' = [node |-> node]
    /\ pre' = buf
    /\ op' = "try_encode_file_format"
    /\ UNCHANGED <<self, file_format_codecs>>

\* decode the blob the last successful encode appended to the buffer
DecodeEncoded ==
    /\ op = "try_encode_file_format"
    /\ res.tag = "Ok"
    /\ LET bytes == SubSeq(buf, Len(pre) + 1, Len(buf))
           r == try_decode_file_format(file_format_codecs, bytes)
       IN /\ res' = r.res
          /\ calls' = r.trace
          /\ arg' = [bytes |-> bytes, node |-> arg.node, encoded |-> TRUE]
    /\ op' = "try_decode_file_format"
    /\ UNCHANGED <<self, file_format_codecs, buf, pre>>

DecodeRaw ==
    /\ self = "BallistaLogicalExtensionCodec"
    /\ op = "none"
    /\ \E bytes \in RawBlobs :
          LET r == try_decode_file_format(file_format_codecs, bytes)
          IN /\ res' = r.res
             /\ calls' = r.trace
             /\ arg' = [bytes |-> bytes, encoded |-> FALSE]
    /\ op' = "try_decode_file_format"
    /\ UNCHANGED <<self, file_format_codecs, buf, pre>>

Encode ==
    /\ self = "BallistaPhysicalExtensionCodec"
    /\ op = "none"
    /\ \E node \in Plans :
          LET r == try_encode(node, buf)
          IN /\ buf' = r.buf
             /\ res' = r.res
             /\ arg' = [node |-> node]
    /\ pre' = buf
    /\ op' = "try_encode"
    /\ UNCHANGED <<self, file_format_codecs, calls>>

\* decode the envelope the last successful encode appended to the buffer
DecodePlanEncoded ==
    /\ op = "try_encode"
    /\ res.tag = "Ok"
    /\ \E inputs \in ChildLists :
          LET bytes == SubSeq(buf, Len(pre) + 1, Len(buf))
          IN /\ res' = try_decode(bytes, inputs)
             /\ arg' = [bytes |-> bytes, inputs |-> inputs, node |-> arg.node,
                        encoded |-> TRUE]
    /\ op' = "try_decode"
    /\ UNCHANGED <<self, file_format_codecs, buf, pre, calls>>

DecodePlanRaw ==
    /\ self = "BallistaPhysicalExtensionCodec"
    /\ op = "none"
    /\ \E bytes \in RawEnvelopes, inputs \in ChildLists :
          /\ res' = try_decode(bytes, inputs)
          /\ arg' = [bytes |-> bytes, inputs |-> inputs, encoded |-> FALSE]
    /\ op' = "try_decode"
    /\ UNCHANGED <<self, file_format_codecs, buf, pre, calls>>

Next ==
    \/ EncodeFileFormat
    \/ DecodeEncoded
    \/ DecodeRaw
    \/ Encode
    \/ DecodePlanEncoded
    \/ DecodePlanRaw

Spec == Init /\ [][Next]_vars

(***************************************************************************)
(* Properties.                                                            *)
(***************************************************************************)
EncodedFileFormat == op = "try_encode_file_format"
DecodedFileFormat == op = "try_decode_file_format"
EncodedPlan == op = "try_encode"
DecodedPlan == op = "try_decode"

\* 1-based index of the first sub-codec of the list that accepts the format,
\* 0 if none does
FirstAccepting(codecs, node) ==
    IF \E i \in DOMAIN codecs : node \in codecs[i].accepts
    THEN CHOOSE i \in DOMAIN codecs :
             /\ node \in codecs[i].accepts
             /\ \A j \in 1..(i - 1) : node \notin codecs[j].accepts
    ELSE 0

\* the bytes the last call appended to the caller's buffer
Appended == SubSeq(buf, Len(pre) + 1, Len(buf))

\* C1: a file format encoded into an empty buffer decodes, from the bytes
\* the encode produced, to the file format that was encoded.
C1_FileFormatRoundTrip ==
    (DecodedFileFormat /\ arg.encoded /\ pre = <<>>) => res = Ok(arg.node)

\* C2: after a successful encode the first byte written is the list position
\* of the first sub-codec that accepts the format, and the decode of those
\* bytes invokes the sub-codec at that position and no other.
C2_PositionStability ==
    /\ (EncodedFileFormat /\ res.tag = "Ok") =>
          Appended[1] = FirstAccepting(file_format_codecs, arg.node) - 1
    /\ (DecodedFileFormat /\ arg.encoded) =>
          /\ Len(calls) = 1
          /\ calls[1].pos = FirstAccepting(file_format_codecs, arg.node) - 1

\* the envelope kind the bytes carry, "none" if they carry none
EnvelopeKind(bytes) ==
    LET d == ProtoDecode(bytes)
    IN IF d.tag = "Ok" /\ d.val.physical_plan_type # None
       THEN d.val.physical_plan_type[1].kind
       ELSE "none"

\* C3: decoding a ShuffleWriter envelope with zero or with two or more
\* children returns an error, and so does decoding a ShuffleReader or an
\* UnresolvedShuffle envelope with one or more children.
C3_ArityEnforced ==
    DecodedPlan =>
        /\ (EnvelopeKind(arg.bytes) = "ShuffleWriter" /\ Len(arg.inputs) # 1)
              => res.tag = "Err"
        /\ (EnvelopeKind(arg.bytes) \in {"ShuffleReader", "UnresolvedShuffle"}
            /\ Len(arg.inputs) >= 1)
              => res.tag = "Err"

\* C4: a successful encode appends exactly one position byte followed by
\* exactly the bytes the winning sub-codec produced for the format.
C4_BlobLayout ==
    (EncodedFileFormat /\ res.tag = "Ok") =>
        LET winner == file_format_codecs[FirstAccepting(file_format_codecs, arg.node)]
        IN Appended = <<Appended[1]>> \o Payload(winner, arg.node)

\* C5: encoding a format whose first accepting sub-codec sits at a position
\* above U8Range - 1 fails with an error.
C5_PositionFailsFast ==
    (EncodedFileFormat
     /\ FirstAccepting(file_format_codecs, arg.node) - 1 > U8Range - 1)
        => res.tag = "Err"

\* C6: decoding an empty blob returns the "more than 0 bytes" error and
\* decoding a blob whose leading byte is not a position of the list returns
\* the "can't find codec" error, neither invoking a sub-codec; decoding any
\* other blob hands the bytes after the first to the sub-codec at the
\* position the first byte names, and returns what that sub-codec returns.
C6_DecodeRejection ==
    DecodedFileFormat =>
        /\ arg.bytes = <<>> =>
              /\ res = Err(NotImplemented(
                           "File format blob should have more than 0 bytes"))
              /\ calls = <<>>
        /\ (arg.bytes # <<>> /\ arg.bytes[1] >= Len(file_format_codecs)) =>
              /\ res = Err(NotImplemented("Can't find required codex"))
              /\ calls = <<>>
        /\ (arg.bytes # <<>> /\ arg.bytes[1] < Len(file_format_codecs)) =>
              /\ calls = <<[pos |-> arg.bytes[1], fn |-> "decode",
                            bytes |-> Tail(arg.bytes)]>>
              /\ res = SubDecode(file_format_codecs[arg.bytes[1] + 1],
                                 Tail(arg.bytes))

C6_Witness ==
    /\ DecodedFileFormat
    /\ file_format_codecs # <<>>
    /\ arg.bytes # <<>>
    /\ arg.bytes[1] = Len(file_format_codecs)
    /\ res.tag = "Err"
    /\ calls = <<>>

\* C7: when every sub-codec rejects the format the encode returns the error
\* of the last sub-codec of the list, when the list is empty it returns the
\* "empty list" error, and every sub-codec has been tried once, in list
\* order.
C7_EncodeFailure ==
    (EncodedFileFormat /\ FirstAccepting(file_format_codecs, arg.node) = 0) =>
        /\ file_format_codecs = <<>> =>
              res = Err(NotImplemented("Empty list of composed codecs"))
        /\ file_format_codecs # <<>> =>
              res = Err(SubCodecError(
                            file_format_codecs[Len(file_format_codecs)]))
        /\ Len(calls) = Len(file_format_codecs)
        /\ \A i \in DOMAIN calls :
              calls[i].pos = i - 1 /\ calls[i].fn = "encode" /\ ~calls[i].ok

C7_Witness ==
    /\ EncodedFileFormat
    /\ FirstAccepting(file_format_codecs, arg.node) = 0
    /\ Len(file_format_codecs) >= 2
    /\ SubCodecError(file_format_codecs[1])
          # SubCodecError(file_format_codecs[Len(file_format_codecs)])
    /\ res = Err(SubCodecError(file_format_codecs[Len(file_format_codecs)]))

\* the children a decode of the node's envelope is to be given
CorrectChildren(node) ==
    IF node.type = "ShuffleWriterExec" THEN <<node.plan>> ELSE <<>>

\* C8: a shuffle node decoded from its own encoding, with the correct
\* children, is a node of the same kind with the same job_id, stage_id,
\* output_partition_count and partition locations.
C8_ShuffleRoundTrip ==
    (DecodedPlan /\ arg.encoded /\ arg.inputs = CorrectChildren(arg.node)) =>
        /\ res.tag = "Ok"
        /\ res.val.type = arg.node.type
        /\ res.val.stage_id = arg.node.stage_id
        /\ arg.node.type = "ShuffleWriterExec" =>
              res.val.job_id = arg.node.job_id
        /\ arg.node.type = "ShuffleReaderExec" =>
              res.val.partition = arg.node.partition
        /\ arg.node.type = "UnresolvedShuffleExec" =>
              res.val.output_partition_count = arg.node.output_partition_count

\* C9: a ShuffleWriter without output partitioning encodes with the
\* partitioning field absent and decodes to no partitioning; one with hash
\* partitioning decodes, against the same input, to hash partitioning with
\* the same bucket count and the same expressions in the same order (so
\* never to no partitioning); one with any other partitioning fails to
\* encode with an Internal error.
C9_PartitioningFidelity ==
    /\ (EncodedPlan /\ arg.node.type = "ShuffleWriterExec") =>
          LET p == arg.node.shuffle_output_partitioning
          IN /\ p = None =>
                   /\ res.tag = "Ok"
                   /\ Len(Appended) = 1
                   /\ ~HasField(Appended[1].v, "output_partitioning")
             /\ (p # None /\ p[1].kind = "Hash" /\ res.tag = "Ok") =>
                   /\ Len(Appended) = 1
                   /\ HasField(Appended[1].v, "output_partitioning")
             /\ (p # None /\ p[1].kind # "Hash") =>
                   /\ res.tag = "Err"
                   /\ res.err.kind = "Internal"
    /\ (DecodedPlan /\ arg.encoded /\ arg.node.type = "ShuffleWriterExec"
        /\ arg.inputs # <<>> /\ arg.inputs[1] = arg.node.plan) =>
          /\ res.tag = "Ok"
          /\ res.val.shuffle_output_partitioning
                = arg.node.shuffle_output_partitioning

C9_Witness ==
    /\ DecodedPlan
    /\ arg.encoded
    /\ arg.node.type = "ShuffleWriterExec"
    /\ arg.inputs = <<arg.node.plan>>
    /\ arg.node.shuffle_output_partitioning
          = Some(Hash(<<>>, Usize(0, 0, 0, 0)))
    /\ res.tag = "Ok"
    /\ res.val.shuffle_output_partitioning # None

\* C10: an encode that returns an error leaves the caller's buffer as it
\* was, and one that succeeds appends to what the buffer held.
C10_NoPartialOutput ==
    (EncodedFileFormat \/ EncodedPlan) =>
        /\ res.tag = "Err" => buf = pre
        /\ res.tag = "Ok" =>
              /\ Len(buf) > Len(pre)
              /\ SubSeq(buf, 1, Len(pre)) = pre

C10_Witness ==
    /\ EncodedFileFormat
    /\ pre # <<>>
    /\ res.tag = "Err"
    /\ EncodedAfter(file_format_codecs, arg.node, Len(file_format_codecs)) # <<>>
    /\ buf = pre

====
